---- MODULE Spec2Model ----
(***************************************************************************)
(* RAKB API (src/main.py, src/schemas.py): a FastAPI backend that stores   *)
(* users, cars, listings and bookings in a document store and serves       *)
(* search, detail, city-directory and creation endpoints.                  *)
(*                                                                         *)
(* Strings the handlers look into (city names, identifier strings) are     *)
(* sequences of one-character strings; strings only compared for equality  *)
(* (listing_id, status, make, name) are TLA+ strings.  An Optional value   *)
(* is a set: {} is None and {v} is the value v.  Dates are day numbers.    *)
(* A store identifier (bson ObjectId) is a natural number; its string form *)
(* is a fixed-width lower-case hexadecimal numeral.                        *)
(***************************************************************************)
EXTENDS Integers, Sequences, FiniteSets, TLC

\* ------------------------------------------------------------- bounds
MaxDay == 2        \* dates are 1..MaxDay
MaxBookings == 2   \* documents in the booking collection
MaxListings == 3   \* documents in the listing collection
MaxCars == 1       \* documents in the car collection
MaxUsers == 1      \* documents in the user collection
MaxLimit == 2      \* largest ListingQuery.limit sent
MaxDocs == 4       \* documents in the whole store

\* ------------------------------------------------------------- strings
None == {}
Some(v) == {v}
Val(o) == CHOOSE v \in o : TRUE

\* The characters city names and queries are drawn from, with Python's ord().
Chars == {"-", ".", "A", "B", "a", "b"}
ord(c) ==
    CASE c = "-" -> 45 [] c = "." -> 46 [] c = "A" -> 65
      [] c = "B" -> 66 [] c = "a" -> 97 [] c = "b" -> 98

\* Case folding of one character (the letters used here), as the regex
\* option "i" compares.
lower(c) ==
    CASE c = "A" -> "a" [] c = "B" -> "b" [] c = "C" -> "c"
      [] c = "D" -> "d" [] c = "E" -> "e" [] c = "F" -> "f" [] OTHER -> c

RECURSIVE lower_str(_)
lower_str(s) == IF s = <<>> THEN <<>> ELSE <<lower(Head(s))>> \o lower_str(Tail(s))

\* Python's str <= str: lexicographic by code point, a prefix first.
RECURSIVE StrLeq(_, _)
StrLeq(s, t) ==
    IF s = <<>> THEN TRUE
    ELSE IF t = <<>> THEN FALSE
    ELSE IF ord(Head(s)) < ord(Head(t)) THEN TRUE
    ELSE IF ord(Head(s)) > ord(Head(t)) THEN FALSE
    ELSE StrLeq(Tail(s), Tail(t))

\* sorted(list of distinct strings)
RECURSIVE sorted(_)
sorted(S) ==
    IF S = {} THEN <<>>
    ELSE LET m == CHOOSE x \in S : \A y \in S : StrLeq(x, y)
         IN  <<m>> \o sorted(S \ {m})

isinstance_str(c) == c \in Seq(Chars)

\* ------------------------------------------------------------- regex
\* The search of a pattern made of "^", literals, "." and a final "$", with
\* option "i" (letters compare case-folded; "." takes any one character).
RECURSIVE regex_match_here(_, _)
regex_match_here(pat, s) ==
    IF pat = <<>> THEN TRUE
    ELSE IF pat = <<"$">> THEN s = <<>>
    ELSE IF s = <<>> THEN FALSE
    ELSE IF Head(pat) = "." \/ lower(Head(pat)) = lower(Head(s))
         THEN regex_match_here(Tail(pat), Tail(s))
    ELSE FALSE

RECURSIVE regex_search(_, _)
regex_search(pat, s) ==
    IF pat # <<>> /\ Head(pat) = "^" THEN regex_match_here(Tail(pat), s)
    ELSE \/ regex_match_here(pat, s)
         \/ s # <<>> /\ regex_search(pat, Tail(s))

\* ------------------------------------------------------------- ObjectId
IdLen == 2         \* an ObjectId string has 24 hex digits; 2 here
FirstId == 10      \* the first identifier the store hands out ("0a")

HexDigits == <<"0", "1", "2", "3", "4", "5", "6", "7",
               "8", "9", "a", "b", "c", "d", "e", "f">>
HexUpper == [c \in {"A", "B", "C", "D", "E", "F"} |->
    CASE c = "A" -> "a" [] c = "B" -> "b" [] c = "C" -> "c"
      [] c = "D" -> "d" [] c = "E" -> "e" [] c = "F" -> "f"]

is_hex(c) == (\E i \in 1..16 : HexDigits[i] = c) \/ c \in DOMAIN HexUpper
hex_val(c) ==
    LET l == IF c \in DOMAIN HexUpper THEN HexUpper[c] ELSE c
    IN  (CHOOSE i \in 1..16 : HexDigits[i] = l) - 1

\* ObjectId.is_valid: exactly IdLen characters, all hexadecimal.
ObjectId_valid(s) == Len(s) = IdLen /\ \A i \in 1..Len(s) : is_hex(s[i])

\* ObjectId(s) for a valid s: the identifier it denotes.
RECURSIVE hex_num(_)
hex_num(s) == IF s = <<>> THEN 0 ELSE 16 * hex_num(SubSeq(s, 1, Len(s) - 1)) + hex_val(s[Len(s)])

\* ObjectId(s): None stands for the InvalidId exception.
ObjectId(s) == IF ObjectId_valid(s) THEN Some(hex_num(s)) ELSE None

\* str(ObjectId): lower-case hexadecimal, IdLen digits.
RECURSIVE hex_str(_, _)
hex_str(n, w) == IF w = 0 THEN <<>> ELSE hex_str(n \div 16, w - 1) \o <<HexDigits[(n % 16) + 1]>>
str(oid) == hex_str(oid, IdLen)

\* ------------------------------------------------------------- state
Procs == {1, 2}    \* requests to POST /api/bookings that can be in flight at once

VARIABLES
    db,        \* TRUE: the store handle is configured; FALSE: db is None
    user, car, listing, booking,   \* the collections, in insertion order
    nextId,    \* the next identifier the store generates
    pc,        \* per create_booking request: "idle", "query" or "insert"
    req,       \* per create_booking request: the Booking payload (None if none yet)
    bresp,     \* per create_booking request: the response, once it has returned
    request,   \* the latest request to any other endpoint: [op, arg]
    response   \* the response to it: [op, status, body]

vars == <<db, user, car, listing, booking, nextId, pc, req, bresp, request, response>>
store == <<user, car, listing, booking>>
bookingVars == <<pc, req, bresp>>

NoRequest == [op |-> "none", arg |-> <<>>]
NoResponse == [op |-> "none", status |-> 0, body |-> <<>>]
NotConfigured(op) == [op |-> op, status |-> 500, body |-> [detail |-> "Database not configured"]]

Init ==
    /\ db \in BOOLEAN
    /\ user = <<>> /\ car = <<>> /\ listing = <<>> /\ booking = <<>>
    /\ nextId = FirstId
    /\ pc = [p \in Procs |-> "idle"]
    /\ req = [p \in Procs |-> None]
    /\ bresp = [p \in Procs |-> NoResponse]
    /\ request = NoRequest
    /\ response = NoResponse

\* ------------------------------------------------------------- store adapter
\* The documents of a collection.
Stored(coll) == {coll[i] : i \in 1..Len(coll)}

\* collection.find_one(filter): the first matching document, or None.  A
\* filter is given as the set of documents it matches.
find_one(coll, filt) ==
    IF \E i \in 1..Len(coll) : coll[i] \in filt
    THEN Some(coll[CHOOSE i \in 1..Len(coll) :
                     coll[i] \in filt /\ \A j \in 1..(i - 1) : coll[j] \notin filt])
    ELSE None

\* collection.distinct(field) on the listing collection's "city".
distinct_city(coll) == {coll[i].city : i \in 1..Len(coll)}

\* get_documents(collection, filter, limit): at most limit matching documents,
\* in insertion order.
get_documents(coll, filt, limit) ==
    LET found == SelectSeq(coll, LAMBDA d : d \in filt)
    IN  SubSeq(found, 1, IF Len(found) < limit THEN Len(found) ELSE limit)

\* create_document(collection, data): one insert; the store generates the
\* identifier, returned as a string.
create_document(coll, data) == Append(coll, [_id |-> nextId] @@ data)
inserted_id == str(nextId)

InFlight == Cardinality({q \in Procs : pc[q] # "idle"})

\* The store still has room (the bound of the model, not of the program).
Room(n) == nextId + n < FirstId + MaxDocs

Created(op) == [op |-> op, status |-> 201, body |-> [id |-> inserted_id]]

\* ------------------------------------------------------------- schemas
\* Listing: daily_price has ge=0 (the fields no handler reads are left out).
Listing_valid(l) == l.daily_price >= 0
Invalid(op) == [op |-> op, status |-> 422, body |-> [detail |-> "daily_price"]]

\* ------------------------------------------------------------- GET /
read_root ==
    /\ request' = [op |-> "read_root", arg |-> <<>>]
    /\ response' = [op |-> "read_root", status |-> 200,
                    body |-> [name |-> "RAKB API", status |-> "ok"]]
    /\ UNCHANGED <<db, store, nextId, bookingVars>>

\* ------------------------------------------------------------- POST /api/listings
\* Faulty variant of listing_filter: the price bounds are tested for truth, not
\* against None, so a bound of 0 adds no clause.
listing_filter_truthy(query, d) ==
    /\ (query.city # None /\ Val(query.city) # <<>>)
          => regex_search(<<"^">> \o Val(query.city) \o <<"$">>, d.city)
    /\ (query.min_price # None /\ Val(query.min_price) # 0)
          => d.daily_price >= Val(query.min_price)
    /\ (query.max_price # None /\ Val(query.max_price) # 0)
          => d.daily_price <= Val(query.max_price)

\* The filter list_listings builds from a ListingQuery, applied to a listing.
listing_filter(query, d) ==
    /\ (query.city # None /\ Val(query.city) # <<>>)
          => regex_search(<<"^">> \o Val(query.city) \o <<"$">>, d.city)
    /\ query.min_price # None => d.daily_price >= Val(query.min_price)
    /\ query.max_price # None => d.daily_price <= Val(query.max_price)

\* One result of list_listings: id replaces _id; the car is embedded when
\* car_id is non-empty, parses and names a stored car.
shape_item(d) ==
    LET base == [id |-> str(d._id), car_id |-> d.car_id, city |-> d.city,
                 daily_price |-> d.daily_price]
        oid  == IF d.car_id # <<>> THEN ObjectId(d.car_id) ELSE None
        found == IF oid = None THEN None
                 ELSE find_one(car, {c \in Stored(car) : c._id = Val(oid)})
    IN  IF found # None
        THEN base @@ [car |-> [id |-> str(Val(found)._id), make |-> Val(found).make]]
        ELSE base

list_listings(query) ==
    /\ request' = [op |-> "list_listings", arg |-> query]
    /\ IF ~db
       THEN response' = NotConfigured("list_listings")
       ELSE LET docs == get_documents(listing, {d \in Stored(listing) : listing_filter(query, d)},
                                      query.limit)
            IN  response' = [op |-> "list_listings", status |-> 200,
                             body |-> [items |-> [i \in 1..Len(docs) |-> shape_item(docs[i])]]]
    /\ UNCHANGED <<db, store, nextId, bookingVars>>

\* ------------------------------------------------------------- GET /api/listings/{id}
\* Faulty variant of detail_car_doc: car_id is compared with the identifier's string
\* form instead of being parsed.
detail_car_doc_raw(lst) ==
    find_one(car, {c \in Stored(car) : str(c._id) = lst.car_id})

\* The car lookup of get_listing_detail; any exception leaves car_doc None.
detail_car_doc(lst) ==
    LET oid == IF lst.car_id # <<>> THEN ObjectId(lst.car_id) ELSE None
    IN  IF oid = None THEN None ELSE find_one(car, {c \in Stored(car) : c._id = Val(oid)})

get_listing_detail(listing_id) ==
    /\ request' = [op |-> "get_listing_detail", arg |-> listing_id]
    /\ IF ~db
       THEN response' = NotConfigured("get_listing_detail")
       ELSE LET oid == ObjectId(listing_id)
                lst == IF oid = None THEN None
                       ELSE find_one(listing, {d \in Stored(listing) : d._id = Val(oid)})
            IN  IF oid = None
                THEN response' = [op |-> "get_listing_detail", status |-> 400,
                                  body |-> [detail |-> "Invalid id format"]]
                ELSE IF lst = None
                THEN response' = [op |-> "get_listing_detail", status |-> 404,
                                  body |-> [detail |-> "Listing not found"]]
                ELSE LET d == Val(lst)
                         base == [id |-> str(d._id), car_id |-> d.car_id,
                                  city |-> d.city, daily_price |-> d.daily_price]
                         car_doc == detail_car_doc(d)
                     IN  response' =
                            [op |-> "get_listing_detail", status |-> 200,
                             body |-> IF car_doc # None
                                      THEN base @@ [car |-> [id |-> str(Val(car_doc)._id),
                                                             make |-> Val(car_doc).make]]
                                      ELSE base]
    /\ UNCHANGED <<db, store, nextId, bookingVars>>

\* ------------------------------------------------------------- GET /api/cities
\* Faulty variant of cities_of: the city of every listing, in insertion order.
cities_of_unsorted(coll) == [i \in 1..Len(coll) |-> coll[i].city]

\* distinct("city"), the strings among them, sorted.
cities_of(coll) == sorted({c \in distinct_city(coll) : isinstance_str(c)})

get_cities ==
    /\ request' = [op |-> "get_cities", arg |-> <<>>]
    /\ IF ~db
       THEN response' = NotConfigured("get_cities")
       ELSE response' = [op |-> "get_cities", status |-> 200,
                         body |-> [items |-> cities_of(listing)]]
    /\ UNCHANGED <<db, store, nextId, bookingVars>>

\* ------------------------------------------------------------- creation endpoints
create_user(u) ==
    /\ request' = [op |-> "create_user", arg |-> u]
    /\ Len(user) < MaxUsers /\ Room(0)
    /\ IF ~db
       THEN response' = NotConfigured("create_user") /\ UNCHANGED <<user, nextId>>
       ELSE /\ user' = create_document(user, u)
            /\ nextId' = nextId + 1
            /\ response' = Created("create_user")
    /\ UNCHANGED <<db, car, listing, booking, bookingVars>>

\* Faulty variant of create_car: the document is inserted twice.
create_car_twice(c) ==
    /\ request' = [op |-> "create_car", arg |-> c]
    /\ Len(car) < MaxCars /\ Room(0)
    /\ db
    /\ car' = Append(create_document(car, c), [_id |-> nextId + 1] @@ c)
    /\ nextId' = nextId + 2
    /\ response' = Created("create_car")
    /\ UNCHANGED <<db, user, listing, booking, bookingVars>>

create_car(c) ==
    /\ request' = [op |-> "create_car", arg |-> c]
    /\ Len(car) < MaxCars /\ Room(0)
    /\ IF ~db
       THEN response' = NotConfigured("create_car") /\ UNCHANGED <<car, nextId>>
       ELSE /\ car' = create_document(car, c)
            /\ nextId' = nextId + 1
            /\ response' = Created("create_car")
    /\ UNCHANGED <<db, user, listing, booking, bookingVars>>

create_listing(l) ==
    /\ request' = [op |-> "create_listing", arg |-> l]
    /\ Len(listing) < MaxListings /\ Room(0)
    /\ IF ~Listing_valid(l)
       THEN response' = Invalid("create_listing") /\ UNCHANGED <<listing, nextId>>
       ELSE IF ~db
       THEN response' = NotConfigured("create_listing") /\ UNCHANGED <<listing, nextId>>
       ELSE /\ listing' = create_document(listing, l)
            /\ nextId' = nextId + 1
            /\ response' = Created("create_listing")
    /\ UNCHANGED <<db, user, car, booking, bookingVars>>

\* ------------------------------------------------------------- GET /test
test_database ==
    /\ request' = [op |-> "test_database", arg |-> <<>>]
    /\ response' =
         [op |-> "test_database", status |-> 200,
          body |-> [backend |-> "Running",
                    database |-> IF db THEN "Connected & Working"
                                 ELSE "Available but not initialized",
                    connection_status |-> IF db THEN "Connected" ELSE "Not Connected",
                    collections |->
                        IF db THEN {n \in {"user", "car", "listing", "booking"} :
                                       \/ n = "user" /\ user # <<>>
                                       \/ n = "car" /\ car # <<>>
                                       \/ n = "listing" /\ listing # <<>>
                                       \/ n = "booking" /\ booking # <<>>}
                        ELSE {}]]
    /\ UNCHANGED <<db, store, nextId, bookingVars>>

\* ------------------------------------------------------------- POST /api/bookings
\* Faulty variants of overlap_filter: strict comparisons; no listing_id clause; a
\* clause that skips cancelled bookings.
overlap_filter_strict(b, e) ==
    /\ e.listing_id = b.listing_id
    /\ (e.start_date < b.end_date /\ e.end_date > b.start_date)

overlap_filter_any_listing(b, e) ==
    e.start_date <= b.end_date /\ e.end_date >= b.start_date

overlap_filter_active(b, e) ==
    /\ e.listing_id = b.listing_id
    /\ e.status # "cancelled"
    /\ (e.start_date <= b.end_date /\ e.end_date >= b.start_date)

\* The filter of the overlap query, for candidate b, applied to stored booking e.
overlap_filter(b, e) ==
    /\ e.listing_id = b.listing_id
    /\ (e.start_date <= b.end_date /\ e.end_date >= b.start_date)


\* A request arrives with a valid Booking body.
create_booking_recv(p, b) ==
    /\ pc[p] = "idle"
    /\ Len(booking) + InFlight < MaxBookings /\ Room(InFlight)
    /\ pc' = [pc EXCEPT ![p] = "query"]
    /\ req' = [req EXCEPT ![p] = Some(b)]
    /\ bresp' = [bresp EXCEPT ![p] = NoResponse]
    /\ UNCHANGED <<db, store, nextId, request, response>>

Rejected == [op |-> "create_booking", status |-> 400,
             body |-> [detail |-> "Dates not available"]]

\* Faulty variant of create_booking_query: the candidate is inserted before the check.
create_booking_query_dirty(p) ==
    /\ pc[p] = "query"
    /\ db
    /\ booking' = create_document(booking, Val(req[p]))
    /\ nextId' = nextId + 1
    /\ LET overlap == find_one(booking, {e \in Stored(booking) : overlap_filter(Val(req[p]), e)})
       IN  bresp' = [bresp EXCEPT ![p] =
                        IF overlap # None THEN Rejected ELSE Created("create_booking")]
    /\ pc' = [pc EXCEPT ![p] = "idle"]
    /\ UNCHANGED <<db, user, car, listing, req, request, response>>

\* The db check and the overlap query (one store operation).
create_booking_query(p) ==
    /\ pc[p] = "query"
    /\ IF ~db
       THEN /\ bresp' = [bresp EXCEPT ![p] = NotConfigured("create_booking")]
            /\ pc' = [pc EXCEPT ![p] = "idle"]
       ELSE LET overlap == find_one(booking, {e \in Stored(booking) : overlap_filter(Val(req[p]), e)})
            IN  IF overlap # None
                THEN /\ bresp' = [bresp EXCEPT ![p] = Rejected]
                     /\ pc' = [pc EXCEPT ![p] = "idle"]
                ELSE /\ pc' = [pc EXCEPT ![p] = "insert"]
                     /\ UNCHANGED bresp
    /\ UNCHANGED <<db, store, nextId, req, request, response>>

\* Faulty variant of create_booking_insert: the overlap query is run again with the
\* insert, as one operation.
create_booking_insert_rechecked(p) ==
    /\ pc[p] = "insert"
    /\ LET overlap == find_one(booking, {e \in Stored(booking) : overlap_filter(Val(req[p]), e)})
       IN  IF overlap # None
           THEN /\ bresp' = [bresp EXCEPT ![p] = Rejected]
                /\ UNCHANGED <<booking, nextId>>
           ELSE /\ booking' = create_document(booking, Val(req[p]))
                /\ nextId' = nextId + 1
                /\ bresp' = [bresp EXCEPT ![p] = Created("create_booking")]
    /\ pc' = [pc EXCEPT ![p] = "idle"]
    /\ UNCHANGED <<db, user, car, listing, req, request, response>>

\* The insert (a second store operation) and the 201 response.
create_booking_insert(p) ==
    /\ pc[p] = "insert"
    /\ booking' = create_document(booking, Val(req[p]))
    /\ nextId' = nextId + 1
    /\ bresp' = [bresp EXCEPT ![p] = Created("create_booking")]
    /\ pc' = [pc EXCEPT ![p] = "idle"]
    /\ UNCHANGED <<db, user, car, listing, req, request, response>>

\* ------------------------------------------------------------- requests sent
Days == 1..MaxDay
BookingInputs ==
    [listing_id : {"L1", "L2"}, start_date : Days, end_date : Days,
     status : {"pending"}]
\* Bookings of one listing in every status the overlap check could tell apart.
StatusBookingInputs ==
    [listing_id : {"L1"}, start_date : Days, end_date : Days,
     status : {"pending", "cancelled", "completed"}]
FewBookingInputs ==
    {[listing_id |-> "L1", start_date |-> d, end_date |-> d, status |-> "pending"] :
        d \in {1, MaxDay}}

UserInputs == [name : {"u"}]
CarInputs == [make : {"Dacia"}]

PriceInputs == {0, 1, 2}
\* Listings sent to the search specification: every price.
SearchListingInputs ==
    [car_id : {<<"0", "A">>}, city : {<<"a">>, <<"a", "b">>},
     daily_price : PriceInputs \cup {-1}]
\* Listings sent to the city specification: every city.
CityListingInputs ==
    [car_id : {<<"0", "A">>}, city : {<<>>, <<"a">>, <<"A">>, <<"a", "b">>},
     daily_price : {1}]
\* Listings sent to the detail specification: every kind of car_id.
DetailListingInputs ==
    [car_id : {<<>>, <<"z", "z">>, <<"0", "A">>, <<"0", "b">>, <<"0", "c">>},
     city : {<<"a">>}, daily_price : {1}]
FewListingInputs ==
    [car_id : {<<"0", "A">>}, city : {<<"a">>}, daily_price : {1, -1}]

QueryPrices == {None, Some(0), Some(1)}
ListingQueries ==
    [city : {None, Some(<<"a">>)}, min_price : QueryPrices, max_price : QueryPrices,
     limit : 1..MaxLimit]
CityQueries ==
    [city : {None, Some(<<>>), Some(<<"a">>), Some(<<".">>), Some(<<"A", "b">>)},
     min_price : {None}, max_price : {None}, limit : 1..MaxLimit]
FewListingQueries ==
    [city : {Some(<<"a">>)}, min_price : {None}, max_price : {Some(1)},
     limit : {MaxLimit}]

IdInputs == {<<>>, <<"z", "z">>, <<"0", "a">>, <<"0", "A">>, <<"0", "b">>,
             <<"0", "B">>, <<"0", "c">>, <<"0", "b", "0">>}
FewIdInputs == {<<"z", "z">>, <<"0", "A">>}

\* ------------------------------------------------------------- specifications
\* Every endpoint, bookings concurrent.
Next ==
    \/ read_root
    \/ test_database
    \/ get_cities
    \/ \E q \in FewListingQueries : list_listings(q)
    \/ \E i \in FewIdInputs : get_listing_detail(i)
    \/ \E u \in UserInputs : create_user(u)
    \/ \E c \in CarInputs : create_car(c)
    \/ \E l \in FewListingInputs : create_listing(l)
    \/ \E p \in Procs : \E b \in FewBookingInputs : create_booking_recv(p, b)
    \/ \E p \in Procs : create_booking_query(p)
    \/ \E p \in Procs : create_booking_insert(p)

Spec == Init /\ [][Next]_vars

\* POST /api/bookings alone, requests concurrent.
NextBooking ==
    \/ \E p \in Procs : \E b \in BookingInputs : create_booking_recv(p, b)
    \/ \E p \in Procs : create_booking_query(p)
    \/ \E p \in Procs : create_booking_insert(p)

SpecBooking == Init /\ [][NextBooking]_vars

\* POST /api/bookings alone, each request handled to completion before the
\* next one starts.
NextSeq ==
    \/ \E p \in Procs : \E b \in BookingInputs :
          (\A q \in Procs : pc[q] = "idle") /\ create_booking_recv(p, b)
    \/ \E p \in Procs : create_booking_query(p)
    \/ \E p \in Procs : create_booking_insert(p)

SpecSeq == Init /\ [][NextSeq]_vars

\* The same, the bookings sent carrying any status.
NextStatus ==
    \/ \E p \in Procs : \E b \in StatusBookingInputs :
          (\A q \in Procs : pc[q] = "idle") /\ create_booking_recv(p, b)
    \/ \E p \in Procs : create_booking_query(p)
    \/ \E p \in Procs : create_booking_insert(p)

SpecStatus == Init /\ [][NextStatus]_vars

\* Search by price over listings of every price.
NextSearch ==
    \/ \E q \in ListingQueries : list_listings(q)
    \/ \E l \in SearchListingInputs : create_listing(l)

SpecSearch == Init /\ [][NextSearch]_vars

\* Search by city and the city directory over listings of every city.
NextCity ==
    \/ get_cities
    \/ \E q \in CityQueries : list_listings(q)
    \/ \E l \in CityListingInputs : create_listing(l)

SpecCity == Init /\ [][NextCity]_vars

\* Listing detail over cars and listings whose car_id may or may not resolve.
NextDetail ==
    \/ \E i \in IdInputs : get_listing_detail(i)
    \/ \E q \in FewListingQueries : list_listings(q)
    \/ \E c \in CarInputs : create_car(c)
    \/ \E l \in DetailListingInputs : create_listing(l)

SpecDetail == Init /\ [][NextDetail]_vars

\* ------------------------------------------------------------- properties
\* Two date ranges intersect, endpoints included.
Intersect(a, b) == a.start_date <= b.end_date /\ a.end_date >= b.start_date

\* Request p has returned (it is not in flight and has a response).
Returned(p) == pc[p] = "idle" /\ bresp[p].op = "create_booking"

\* C1: when create_booking requests are handled one at a time, the booking
\* collection never holds two distinct bookings of one listing whose date
\* ranges intersect.
C1_NoDoubleBooking ==
    \A i, j \in 1..Len(booking) :
        (i # j /\ booking[i].listing_id = booking[j].listing_id)
            => ~Intersect(booking[i], booking[j])

\* Two bookings of one listing are stored and a third request was rejected.
C1_Witness ==
    /\ \E i, j \in 1..Len(booking) :
          i # j /\ booking[i].listing_id = booking[j].listing_id
    /\ \E p \in Procs : Returned(p) /\ bresp[p].status = 400

\* C2: the overlap query and the insert are two operations: a request that
\* has passed the query inserts its booking and returns 201 whatever has
\* been stored since, so two concurrent requests can double-book.
C2_InsertAfterQueryIsUnconditional ==
    [][\A p \in Procs :
          (pc[p] = "insert" /\ pc'[p] # "insert")
              => /\ bresp'[p].status = 201
                 /\ Len(booking') = Len(booking) + 1
                 /\ booking'[Len(booking')].listing_id = Val(req[p]).listing_id
                 /\ booking'[Len(booking')].start_date = Val(req[p]).start_date
                 /\ booking'[Len(booking')].end_date = Val(req[p]).end_date]_vars

\* Both requests returned 201 and their bookings, of one listing and with
\* intersecting ranges, are both stored.
C2_Witness ==
    /\ \A p \in Procs : Returned(p) /\ bresp[p].status = 201
    /\ \E i, j \in 1..Len(booking) :
          /\ i # j
          /\ str(booking[i]._id) = bresp[1].body.id
          /\ str(booking[j]._id) = bresp[2].body.id
          /\ booking[i].listing_id = booking[j].listing_id
          /\ Intersect(booking[i], booking[j])

\* C3: with the store configured and requests handled one at a time, a
\* request is rejected with 400 "Dates not available" exactly when another
\* stored booking of its listing intersects its range (endpoints included);
\* otherwise it returned 201 and its booking is stored under the new id.
C3_RejectedIffOverlap ==
    \A p \in Procs :
        (db /\ Returned(p)) =>
            LET b == Val(req[p])
                own(e) == bresp[p].status = 201 /\ str(e._id) = bresp[p].body.id
                clash == \E e \in Stored(booking) :
                            /\ ~own(e)
                            /\ e.listing_id = b.listing_id
                            /\ e.start_date <= b.end_date
                            /\ e.end_date >= b.start_date
            IN  IF clash
                THEN bresp[p].status = 400 /\ bresp[p].body.detail = "Dates not available"
                ELSE /\ bresp[p].status = 201
                     /\ \E e \in Stored(booking) :
                           /\ own(e)
                           /\ e.listing_id = b.listing_id
                           /\ e.start_date = b.start_date
                           /\ e.end_date = b.end_date

\* One request was rejected for starting on a stored booking's end date,
\* another was accepted starting the day after a stored booking ends, and a
\* booking of another listing over the same dates is stored.
C3_Witness ==
    /\ \E p \in Procs :
          /\ Returned(p) /\ bresp[p].status = 400
          /\ \E e \in Stored(booking) :
                /\ e.listing_id = Val(req[p]).listing_id
                /\ e.end_date = Val(req[p]).start_date
                /\ e.start_date < e.end_date
    /\ \E q \in Procs :
          /\ Returned(q) /\ bresp[q].status = 201
          /\ \E e \in Stored(booking) :
                (e.listing_id # Val(req[q]).listing_id /\ Intersect(e, Val(req[q])))
                \/ (e.listing_id = Val(req[q]).listing_id
                      /\ e.end_date + 1 = Val(req[q]).start_date)

\* C4: the step in which a request is rejected with "Dates not available"
\* writes nothing: every collection holds the same documents after it.
C4_RejectionWritesNothing ==
    [][\A p \in Procs :
          (bresp'[p].status = 400 /\ bresp[p].status # 400)
              => (user' = user /\ car' = car /\ listing' = listing /\ booking' = booking)]_vars

\* A request was rejected while every collection holds documents.
C4_Witness ==
    /\ \E p \in Procs : Returned(p) /\ bresp[p] = Rejected
    /\ user # <<>> /\ car # <<>> /\ listing # <<>> /\ booking # <<>>

\* C10: the overlap query does not look at status: a request whose range
\* intersects a stored cancelled or completed booking of its listing is
\* rejected, and nothing is stored for it.
C10_CancelledBookingBlocks ==
    [][\A p \in Procs :
          (/\ db /\ pc[p] = "query" /\ pc'[p] # "query"
           /\ \E e \in Stored(booking) :
                 /\ e.status \in {"cancelled", "completed"}
                 /\ e.listing_id = Val(req[p]).listing_id
                 /\ Intersect(e, Val(req[p])))
              => (bresp'[p] = Rejected /\ pc'[p] = "idle" /\ booking' = booking)]_vars

\* A request was rejected although the only stored bookings of its listing
\* that intersect its range are cancelled.
C10_Witness ==
    \E p \in Procs :
        /\ Returned(p) /\ bresp[p].status = 400
        /\ \E e \in Stored(booking) :
              e.listing_id = Val(req[p]).listing_id /\ Intersect(e, Val(req[p]))
        /\ \A e \in Stored(booking) :
              (e.listing_id = Val(req[p]).listing_id /\ Intersect(e, Val(req[p])))
                  => e.status = "cancelled"

\* The latest request was to endpoint op and was answered with 200.
Answered(op) == request.op = op /\ response.op = op /\ response.status = 200

Items == response.body.items
Ascending(items) ==
    \A i, j \in 1..Len(items) : i < j => (StrLeq(items[i], items[j]) /\ items[i] # items[j])

\* C5 as stated: GET /api/cities returns, sorted and without duplicates,
\* exactly the distinct non-empty city strings of the stored listings.
C5_CitiesSortedDistinctNonEmpty ==
    Answered("get_cities") =>
        /\ Ascending(Items)
        /\ {Items[i] : i \in 1..Len(Items)} = {d.city : d \in Stored(listing)} \ {<<>>}

\* C5 amended: GET /api/cities returns, sorted and without duplicates,
\* exactly the distinct city strings of the stored listings, the empty
\* string among them when a listing has city "".
C5_CitiesSortedDistinct ==
    Answered("get_cities") =>
        /\ Ascending(Items)
        /\ {Items[i] : i \in 1..Len(Items)} = {d.city : d \in Stored(listing)}

\* Three listings, two of them of one city and one with city "", listed as
\* two cities with "" first.
C5_Witness ==
    /\ Answered("get_cities")
    /\ Len(listing) = 3 /\ Len(Items) = 2
    /\ Items[1] = <<>>

\* C6: a search with a (non-empty) city returns only listings whose city
\* equals it when case is ignored, and leaves such a listing out only when
\* the limit is reached.
C6_CityFilterIsExactIgnoringCase ==
    (Answered("list_listings") /\ request.arg.city # None
        /\ Val(request.arg.city) # <<>>) =>
        LET want == lower_str(Val(request.arg.city))
        IN  /\ \A i \in 1..Len(Items) : lower_str(Items[i].city) = want
            /\ \A d \in Stored(listing) :
                  (lower_str(d.city) = want
                     /\ \A i \in 1..Len(Items) : Items[i].id # str(d._id))
                      => Len(Items) = request.arg.limit

\* C7: a search returns only listings whose daily_price is within every
\* supplied bound, endpoints included and 0 a bound like any other; with no
\* city given, a listing within the bounds is left out only when the limit
\* is reached.
C7_PriceBoundsInclusive ==
    Answered("list_listings") =>
        LET q == request.arg
            within(price) ==
                /\ q.min_price # None => price >= Val(q.min_price)
                /\ q.max_price # None => price <= Val(q.max_price)
        IN  /\ \A i \in 1..Len(Items) : within(Items[i].daily_price)
            /\ q.city = None =>
                  \A d \in Stored(listing) :
                      (within(d.daily_price)
                         /\ \A i \in 1..Len(Items) : Items[i].id # str(d._id))
                          => Len(Items) = q.limit

\* A search with max_price 0 and no other clause returned the listing priced
\* 0 although a dearer one is stored first.
C7_Witness ==
    /\ Answered("list_listings")
    /\ request.arg.city = None /\ request.arg.min_price = None
    /\ request.arg.max_price = Some(0)
    /\ Len(Items) = 1 /\ Items[1].daily_price = 0
    /\ Len(listing) >= 2 /\ listing[1].daily_price > 0

\* C8: with the store configured, GET /api/listings/{id} answers 400 when
\* the id does not parse, 404 when it names no listing, and else the
\* listing with a string id, no _id, and a car exactly when its car_id
\* parses and names a stored car.
C8_DetailStatusAndCar ==
    (db /\ request.op = "get_listing_detail") =>
        LET s == request.arg
            parses(x) == Len(x) = IdLen /\ \A i \in 1..Len(x) : is_hex(x[i])
            named(coll, x) == {d \in Stored(coll) : str(d._id) = lower_str(x)}
        IN  IF ~parses(s) THEN response.status = 400
            ELSE IF named(listing, s) = {} THEN response.status = 404
            ELSE LET d == CHOOSE d \in named(listing, s) : TRUE
                     body == response.body
                 IN  /\ response.status = 200
                     /\ body.id = str(d._id) /\ body.id \in Seq(STRING)
                     /\ "_id" \notin DOMAIN body
                     /\ body.city = d.city /\ body.daily_price = d.daily_price
                     /\ ("car" \in DOMAIN body)
                           <=> (parses(d.car_id) /\ named(car, d.car_id) # {})
                     /\ "car" \in DOMAIN body =>
                           \E c \in named(car, d.car_id) : body.car.id = str(c._id)

\* A listing fetched by an upper-case id came back with its car embedded.
C8_Witness ==
    /\ Answered("get_listing_detail")
    /\ "car" \in DOMAIN response.body
    /\ request.arg # response.body.id

ReadOps == {"read_root", "test_database", "get_cities", "list_listings",
            "get_listing_detail"}
IsPrefix(a, b) == Len(a) <= Len(b) /\ SubSeq(b, 1, Len(a)) = a
AllIds == {d._id : d \in Stored(user) \cup Stored(car) \cup Stored(listing) \cup Stored(booking)}
Grew(a, b) == Len(b) = Len(a) + 1 /\ IsPrefix(a, b) /\ b[Len(b)]._id \notin AllIds

\* C9: in every step each collection keeps its documents, unchanged and in
\* place; a step that changes the store is a create request answered 201
\* that adds one document, under the fresh identifier it returns, to its
\* own collection and leaves the other collections alone; every create
\* answered 201 is such a step; so no read endpoint changes the store.
C9_AppendOnly ==
    [][/\ IsPrefix(user, user') /\ IsPrefix(car, car')
       /\ IsPrefix(listing, listing') /\ IsPrefix(booking, booking')
       /\ store' # store =>
            \/ /\ Grew(user, user') /\ <<car, listing, booking>>' = <<car, listing, booking>>
               /\ response' = [op |-> "create_user", status |-> 201,
                               body |-> [id |-> str(user'[Len(user')]._id)]]
            \/ /\ Grew(car, car') /\ <<user, listing, booking>>' = <<user, listing, booking>>
               /\ response' = [op |-> "create_car", status |-> 201,
                               body |-> [id |-> str(car'[Len(car')]._id)]]
            \/ /\ Grew(listing, listing') /\ <<user, car, booking>>' = <<user, car, booking>>
               /\ response' = [op |-> "create_listing", status |-> 201,
                               body |-> [id |-> str(listing'[Len(listing')]._id)]]
            \/ /\ Grew(booking, booking') /\ <<user, car, listing>>' = <<user, car, listing>>
               /\ \E p \in Procs :
                     /\ pc[p] = "insert"
                     /\ bresp'[p] = [op |-> "create_booking", status |-> 201,
                                     body |-> [id |-> str(booking'[Len(booking')]._id)]]
       /\ (response'.status = 201 /\ response'.body.id = str(nextId)) => store' # store
       /\ (\E p \in Procs : bresp'[p].status = 201 /\ bresp'[p].body.id = str(nextId))
             => booking' # booking
       /\ (request'.op \in ReadOps /\ <<request, response>>' # <<request, response>>)
             => store' = store
      ]_vars

\* Every collection holds a document and the latest request was a read.
C9_Witness ==
    /\ user # <<>> /\ car # <<>> /\ listing # <<>> /\ booking # <<>>
    /\ \E op \in ReadOps : Answered(op)

====
